---------------------------- MODULE Spec2Model ----------------------------
(***************************************************************************)
(* A model of the validating UTF-8 decoder of src/src/core.rs.             *)
(*                                                                         *)
(* The caller owns a byte buffer `src` and a forward-only iterator over    *)
(* it, whose cursor is `pos` (the number of items it has yielded).  Each   *)
(* step is one call of validate_next on that iterator, either through a    *)
(* by-value byte iterator (Item = u8) or a by-reference one (Item = &u8).  *)
(* `out` is the history of the calls: for each the result, the classified  *)
(* sequence length and the cursor before and after.                        *)
(***************************************************************************)
EXTENDS Integers, Sequences, FiniteSets

VARIABLES src, cps, pos, out

vars == <<src, cps, pos, out>>

---------------------------------------------------------------------------
(* Bounds of the model *)

\* longest byte source drawn by Init
MaxLen == 4
\* most validate_next calls made on one source
MaxCalls == 3
\* most bytes following the lead byte in InitLead
MaxLeadTail == 2
\* most bytes following the first byte in InitSeq
MaxTail == 4
\* most code points encoded into one source by InitEnc
MaxCps == 2

---------------------------------------------------------------------------
(* u8 / u32 arithmetic *)

RECURSIVE Pow2(_)
Pow2(n) == IF n = 0 THEN 1 ELSE 2 * Pow2(n - 1)

\* a & b on unsigned integers
RECURSIVE BitAnd(_, _)
BitAnd(a, b) ==
    IF a = 0 \/ b = 0 THEN 0
    ELSE (a % 2) * (b % 2) + 2 * BitAnd(a \div 2, b \div 2)

\* x << n on u32 (0 < n < 32): the top n bits are dropped, the rest move up
Shl32(x, n) == (x % Pow2(32 - n)) * Pow2(n)

\* x >> n
Shr(x, n) == x \div Pow2(n)

\* cp as u16: truncation to the low 16 bits
AsU16(cp) == cp % Pow2(16)

---------------------------------------------------------------------------
(* Option and Result values *)

None == <<>>
Some(x) == <<x>>

Ok(v) == [kind |-> "Ok", val |-> v]
Err(e) == [kind |-> e, val |-> -1]

---------------------------------------------------------------------------
(* Constants and macros, core.rs lines 1-27 *)

\* 0xd800
LEAD_SURROGATE_MIN == 55296
\* 0xdfff
TRAIL_SURROGATE_MAX == 57343
\* 0x0010ffff
CODE_POINT_MAX == 1114111

mask8(oc) == BitAnd(255, oc)

\* is_trail! taking any byte with its top bit set for a continuation byte
is_trail_macro_AnyHighBit(oc) == Shr(mask8(oc), 6) >= 2

is_trail_macro(oc) == Shr(mask8(oc), 6) = 2

\* is_surrogate! with the lower edge off by one
is_surrogate_OpenBelow(cp) ==
    cp > LEAD_SURROGATE_MIN /\ cp <= TRAIL_SURROGATE_MAX

is_surrogate(cp) == cp >= LEAD_SURROGATE_MIN /\ cp <= TRAIL_SURROGATE_MAX

is_code_point_valid(cp) == cp <= CODE_POINT_MAX /\ ~is_surrogate(AsU16(cp))

---------------------------------------------------------------------------
(* SeqLen (One..Four as 1..4), sequence_length, is_overlong_sequence *)

\* sequence_length reporting an absent lead byte as NotEnoughRoom
sequence_length_NoneIsNoRoom(lead_byte) ==
    IF lead_byte = None THEN Err("NotEnoughRoom")
    ELSE LET b == lead_byte[1] IN
         IF b < 128 THEN Ok(1)
         ELSE IF Shr(b, 5) = 6 THEN Ok(2)
         ELSE IF Shr(b, 4) = 14 THEN Ok(3)
         ELSE IF Shr(b, 3) = 30 THEN Ok(4)
         ELSE Err("InvalidLead")

\* sequence_length with the one-byte test off by one (b <= 0x80)
sequence_length_AsciiOffByOne(lead_byte) ==
    IF lead_byte = None THEN Err("InvalidLead")
    ELSE LET b == lead_byte[1] IN
         IF b <= 128 THEN Ok(1)
         ELSE IF Shr(b, 5) = 6 THEN Ok(2)
         ELSE IF Shr(b, 4) = 14 THEN Ok(3)
         ELSE IF Shr(b, 3) = 30 THEN Ok(4)
         ELSE Err("InvalidLead")

sequence_length(lead_byte) ==
    IF lead_byte = None THEN Err("InvalidLead")
    ELSE LET b == lead_byte[1] IN
         IF b < 128 THEN Ok(1)
         ELSE IF Shr(b, 5) = 6 THEN Ok(2)
         ELSE IF Shr(b, 4) = 14 THEN Ok(3)
         ELSE IF Shr(b, 3) = 30 THEN Ok(4)
         ELSE Err("InvalidLead")

\* is_overlong_sequence without its `cp < 0x800` branch
is_overlong_sequence_NoTwoByteCase(cp, length) ==
    IF cp < 128 THEN length # 1
    ELSE IF cp < 65536 THEN length # 3
    ELSE FALSE

is_overlong_sequence(cp, length) ==
    IF cp < 128 THEN length # 1
    ELSE IF cp < 2048 THEN length # 2
    ELSE IF cp < 65536 THEN length # 3
    ELSE FALSE

---------------------------------------------------------------------------
(* The caller's iterator and the Peekable adaptor validate_next wraps it in *)

\* the i-th item of the iterator: the byte itself, or a reference to it
Item(kind, i) == IF kind = "u8" THEN src[i] ELSE [ref |-> i]

\* AsByte::as_byte for u8 (self) and for &u8 (*self)
as_byte(kind, v) == IF kind = "u8" THEN v ELSE src[v.ref]

\* I::next on the caller's iterator at cursor p
IterNext(kind, p) ==
    IF p < Len(src) THEN [item |-> Some(Item(kind, p + 1)), iter |-> p + 1]
    ELSE [item |-> None, iter |-> p]

\* it.peekable(): the adaptor borrows the caller's iterator, nothing peeked
Peekable(p) == [iter |-> p, peeked |-> None]

\* the adaptor keeps the item n it drew from the iterator in its buffer
PeekFill(n) ==
    [item |-> n.item, it |-> [iter |-> n.iter, peeked |-> Some(n.item)]]

\* Peekable::peek: fills the one-item buffer from the underlying iterator
Peek(kind, pk) ==
    IF pk.peeked = None THEN PeekFill(IterNext(kind, pk.iter))
    ELSE [item |-> pk.peeked[1], it |-> pk]

\* the adaptor hands on the item n it drew from the iterator
PeekableDraw(n) == [item |-> n.item, it |-> [iter |-> n.iter, peeked |-> None]]

\* Peekable::next: the buffered item if there is one, else the iterator's next
PeekableNext(kind, pk) ==
    IF pk.peeked # None
    THEN [item |-> pk.peeked[1], it |-> [iter |-> pk.iter, peeked |-> None]]
    ELSE PeekableDraw(IterNext(kind, pk.iter))

---------------------------------------------------------------------------
(* The decoding routines.  Each returns the Result and the adaptor after it *)

\* .map(|v| v.as_byte()).ok_or(UtfError::NotEnoughRoom)
ByteOrNoRoom(kind, n) ==
    [r  |-> IF n.item = None THEN Err("NotEnoughRoom")
            ELSE Ok(as_byte(kind, n.item[1])),
     it |-> n.it]

get_next_byte(kind, it) == ByteOrNoRoom(kind, PeekableNext(kind, it))

is_trail(byte) ==
    IF is_trail_macro(byte) THEN Ok(byte) ELSE Err("IncompleteSequence")

\* .and_then(is_trail)
AndThenIsTrail(b) ==
    [r |-> IF b.r.kind = "Ok" THEN is_trail(b.r.val) ELSE b.r, it |-> b.it]

\* get_next_byte(it).and_then(is_trail)
NextTrail(kind, it) == AndThenIsTrail(get_next_byte(kind, it))

get_sequence_1(kind, it) == get_next_byte(kind, it)

\* get_sequence_2 once its second byte t1 is read
Seq2Trail1(cp, t1) ==
    IF t1.r.kind # "Ok" THEN t1
    ELSE [r  |-> Ok(BitAnd(Shl32(cp, 6), 2047) + BitAnd(t1.r.val, 63)),
          it |-> t1.it]

\* get_sequence_2 once its lead byte s1 is read
Seq2Lead(kind, s1) ==
    IF s1.r.kind # "Ok" THEN s1
    ELSE Seq2Trail1(s1.r.val, NextTrail(kind, s1.it))

get_sequence_2(kind, it) == Seq2Lead(kind, get_sequence_1(kind, it))

\* get_sequence_3 once its third byte t2 is read
Seq3Trail2(cp, t2) ==
    IF t2.r.kind # "Ok" THEN t2
    ELSE [r |-> Ok(cp + BitAnd(t2.r.val, 63)), it |-> t2.it]

\* get_sequence_3 once its second byte t1 is read
Seq3Trail1(kind, cp, t1) ==
    IF t1.r.kind # "Ok" THEN t1
    ELSE Seq3Trail2(BitAnd(Shl32(cp, 12), 65535)
                      + BitAnd(Shl32(t1.r.val, 6), 4095),
                    NextTrail(kind, t1.it))

\* get_sequence_3 once its lead byte s1 is read
Seq3Lead(kind, s1) ==
    IF s1.r.kind # "Ok" THEN s1
    ELSE Seq3Trail1(kind, s1.r.val, NextTrail(kind, s1.it))

get_sequence_3(kind, it) == Seq3Lead(kind, get_sequence_1(kind, it))

\* get_sequence_4 once its fourth byte t3 is read
Seq4Trail3(cp, t3) ==
    IF t3.r.kind # "Ok" THEN t3
    ELSE [r |-> Ok(cp + BitAnd(t3.r.val, 63)), it |-> t3.it]

\* get_sequence_4 reading its fourth byte before it looks at the third
Seq4Trail2_ReadsOn(kind, cp, t2) ==
    IF t2.r.kind # "Ok" THEN [r |-> t2.r, it |-> NextTrail(kind, t2.it).it]
    ELSE Seq4Trail3(cp + BitAnd(Shl32(t2.r.val, 6), 4095),
                    NextTrail(kind, t2.it))

\* get_sequence_4 once its third byte t2 is read
Seq4Trail2(kind, cp, t2) ==
    IF t2.r.kind # "Ok" THEN t2
    ELSE Seq4Trail3(cp + BitAnd(Shl32(t2.r.val, 6), 4095),
                    NextTrail(kind, t2.it))

\* get_sequence_4 once its second byte t1 is read
Seq4Trail1(kind, cp, t1) ==
    IF t1.r.kind # "Ok" THEN t1
    ELSE Seq4Trail2(kind,
                    BitAnd(Shl32(cp, 18), 2097151)
                      + BitAnd(Shl32(t1.r.val, 12), 262143),
                    NextTrail(kind, t1.it))

\* get_sequence_4 once its lead byte s1 is read
Seq4Lead(kind, s1) ==
    IF s1.r.kind # "Ok" THEN s1
    ELSE Seq4Trail1(kind, s1.r.val, NextTrail(kind, s1.it))

get_sequence_4(kind, it) == Seq4Lead(kind, get_sequence_1(kind, it))

\* the closure without the overlong test
CheckCodePoint_NoOverlongTest(code_point, length) ==
    IF is_code_point_valid(code_point)
    THEN Ok(code_point)
    ELSE Err("InvalidCodePoint")

\* the closure of validate_next, core.rs lines 168-178
CheckCodePoint(code_point, length) ==
    IF is_code_point_valid(code_point)
    THEN IF ~is_overlong_sequence(code_point, length)
         THEN Ok(code_point)
         ELSE Err("OverlongSequence")
    ELSE Err("InvalidCodePoint")

\* it.peek().map(|v| (*v).as_byte())
LeadOf(kind, item) ==
    IF item = None THEN None ELSE Some(as_byte(kind, item[1]))

\* .and_then(closure) on the decoded sequence g; the adaptor is dropped and
\* the caller's iterator stays where the adaptor left it
Validated(length, g) ==
    [r    |-> IF g.r.kind = "Ok" THEN CheckCodePoint(g.r.val, length) ELSE g.r,
     len  |-> length,
     iter |-> g.it.iter]

\* validate_next from `let length = sequence_length(lead)?` on
Decode(kind, it, length) ==
    IF length.kind # "Ok" THEN [r |-> length, len |-> 0, iter |-> it.iter]
    ELSE Validated(length.val,
                   CASE length.val = 1 -> get_sequence_1(kind, it)
                     [] length.val = 2 -> get_sequence_2(kind, it)
                     [] length.val = 3 -> get_sequence_3(kind, it)
                     [] OTHER          -> get_sequence_4(kind, it))

\* validate_next once the lead is peeked
Peeked(kind, pk) ==
    Decode(kind, pk.it, sequence_length(LeadOf(kind, pk.item)))

\* validate_next on the caller's iterator at cursor p: the result, the
\* classified length (0 when classification failed) and the caller's cursor
\* after the call
validate_next(kind, p) == Peeked(kind, Peek(kind, Peekable(p)))

---------------------------------------------------------------------------
(* Inputs *)

\* one-byte 0x41; continuation 0x80 0x8D 0xA0; two-byte leads 0xC0 0xC2;
\* three-byte leads 0xE0 0xED; four-byte leads 0xF0 0xF4
Bytes == {65, 128, 141, 160, 192, 194, 224, 237, 240, 244}

AllBytes == 0 .. 255

\* 0x41; continuation 0x80 0xA0 0xBF; two-byte lead 0xC2
TailBytes == {65, 128, 160, 191, 194}

SeqsUpTo(S, n) == UNION {[1 .. k -> S] : k \in 0 .. n}

\* the reference encoder: the minimal-length UTF-8 encoding of v, as
\* str::as_bytes yields it in the tests
Encode(v) ==
    IF v < 128 THEN <<v>>
    ELSE IF v < 2048 THEN <<192 + (v \div 64), 128 + (v % 64)>>
    ELSE IF v < 65536
         THEN <<224 + (v \div 4096), 128 + ((v \div 64) % 64), 128 + (v % 64)>>
    ELSE <<240 + (v \div 262144), 128 + ((v \div 4096) % 64),
           128 + ((v \div 64) % 64), 128 + (v % 64)>>

RECURSIVE EncodeAll(_)
EncodeAll(cs) ==
    IF cs = <<>> THEN <<>> ELSE Encode(Head(cs)) \o EncodeAll(Tail(cs))

\* scalar values at the edges of every length class and of the surrogate gap,
\* on plane 0, plane 1 and plane 16
\* U+0000 U+0041 U+007F U+0080 U+07FF U+0800 U+D7FF U+E000 U+FFFF U+10000
\* U+1D7FF U+1D800 U+1DFFF U+1E000 U+1F600 U+10D800 U+10FFFF
CodePoints ==
    {0, 65, 127, 128, 2047, 2048, 55295, 57344, 65535, 65536,
     120831, 120832, 122879, 122880, 128512, 1103872, 1114111}

---------------------------------------------------------------------------
(* The state machine *)

Fresh == pos = 0 /\ out = <<>>

\* any byte source
Init == /\ src \in SeqsUpTo(Bytes, MaxLen)
        /\ cps = <<>>
        /\ Fresh

\* any of the 256 bytes first, followed by a short tail
InitLead == /\ \E lead \in AllBytes, tail \in SeqsUpTo(TailBytes, MaxLeadTail) :
                 src = <<lead>> \o tail
            /\ cps = <<>>
            /\ Fresh

\* one sequence and the bytes after it: a first byte and a longer tail
InitSeq == /\ \E lead \in Bytes, tail \in SeqsUpTo(TailBytes, MaxTail) :
                src = <<lead>> \o tail
           /\ cps = <<>>
           /\ Fresh

\* the reference encoding of a string of scalar values
InitEnc == /\ cps \in SeqsUpTo(CodePoints, MaxCps)
           /\ src = EncodeAll(cps)
           /\ Fresh

\* the caller's cursor and the history after a call that returned c
Returned(c) ==
    /\ pos' = c.iter
    /\ out' = Append(out, [kind |-> c.r.kind, val |-> c.r.val,
                           len |-> c.len, from |-> pos, to |-> c.iter])

\* validate_next(&mut it) with it: Iterator<Item = u8>
ValidateNextByValue ==
    /\ Len(out) < MaxCalls
    /\ Returned(validate_next("u8", pos))
    /\ UNCHANGED <<src, cps>>

\* validate_next(&mut it) with it: Iterator<Item = &u8>
ValidateNextByRef ==
    /\ Len(out) < MaxCalls
    /\ Returned(validate_next("ref", pos))
    /\ UNCHANGED <<src, cps>>

Next == ValidateNextByValue \/ ValidateNextByRef

Spec == Init /\ [][Next]_vars

SpecLead == InitLead /\ [][Next]_vars

SpecSeq == InitSeq /\ [][Next]_vars

SpecEnc == InitEnc /\ [][Next]_vars

---------------------------------------------------------------------------
(* The vocabulary of the properties: what a call was given, in the words   *)
(* of the UTF-8 definition, read off the source bytes at its start cursor  *)

Calls == DOMAIN out

\* the bytes the i-th call advanced the caller's iterator by
Consumed(i) == out[i].to - out[i].from

\* the source holds a byte k places after the i-th call's start cursor
Present(i, k) == out[i].from + 1 + k <= Len(src)

ByteAt(i, k) == src[out[i].from + 1 + k]

\* top two bits 10
IsContinuation(b) == b \in 128 .. 191

\* the length a lead byte announces, 0 for a byte that cannot lead
AnnouncedLength(b) ==
    IF b \in 0 .. 127 THEN 1
    ELSE IF b \in 192 .. 223 THEN 2
    ELSE IF b \in 224 .. 239 THEN 3
    ELSE IF b \in 240 .. 247 THEN 4
    ELSE 0

LengthAt(i) == IF Present(i, 0) THEN AnnouncedLength(ByteAt(i, 0)) ELSE 0

\* the i-th call starts at a valid lead followed by all its continuation bytes
FullyDecoded(i) ==
    /\ LengthAt(i) >= 1
    /\ Present(i, LengthAt(i) - 1)
    /\ \A k \in 1 .. LengthAt(i) - 1 : IsContinuation(ByteAt(i, k))

\* the value those bytes assemble to: the lead's payload bits, then six bits
\* of each continuation byte
Assembled(i) ==
    CASE LengthAt(i) = 1 -> ByteAt(i, 0)
      [] LengthAt(i) = 2 -> (ByteAt(i, 0) - 192) * 64 + (ByteAt(i, 1) - 128)
      [] LengthAt(i) = 3 -> (ByteAt(i, 0) - 224) * 4096
                            + (ByteAt(i, 1) - 128) * 64 + (ByteAt(i, 2) - 128)
      [] OTHER           -> (ByteAt(i, 0) - 240) * 262144
                            + (ByteAt(i, 1) - 128) * 4096
                            + (ByteAt(i, 2) - 128) * 64 + (ByteAt(i, 3) - 128)

MinimalLength(v) ==
    IF v < 128 THEN 1 ELSE IF v < 2048 THEN 2 ELSE IF v < 65536 THEN 3 ELSE 4

IsSurrogateValue(v) == v >= 55296 /\ v <= 57343

\* the first continuation position of the i-th call holding a byte that is
\* not a continuation byte is k
FirstMalformedAt(i, k) ==
    /\ k \in 1 .. LengthAt(i) - 1
    /\ Present(i, k)
    /\ ~IsContinuation(ByteAt(i, k))
    /\ \A j \in 1 .. k - 1 : IsContinuation(ByteAt(i, j))

\* the source ends inside the i-th call's sequence, after valid bytes only
Truncated(i) ==
    /\ LengthAt(i) >= 2
    /\ ~Present(i, LengthAt(i) - 1)
    /\ \A k \in 1 .. LengthAt(i) - 1 : Present(i, k) => IsContinuation(ByteAt(i, k))

\* every call before the i-th succeeded and the i-th found the source exhausted
ExhaustedAfterSuccesses(i) ==
    /\ i > 1
    /\ out[i].from = Len(src)
    /\ \A j \in 1 .. i - 1 : out[j].kind = "Ok"

\* the cursor at which the i-th code point of cps starts in its encoding
StartOf(i) == Len(EncodeAll(SubSeq(cps, 1, i - 1)))

---------------------------------------------------------------------------
(* C1 *)

\* C1: a source holding the reference encoding of one scalar value v makes
\* validate_next return Ok(v).
C1_RoundTrip ==
    (Len(cps) = 1 /\ Len(out) >= 1) =>
        (out[1].kind = "Ok" /\ out[1].val = cps[1])

---------------------------------------------------------------------------
(* C2 *)

\* C2: whenever validate_next returns Ok(v), v <= 0x10FFFF, v is no
\* surrogate, and the classified length is the minimal UTF-8 length of v.
C2_OkIsMinimalScalar ==
    \A i \in Calls :
        out[i].kind = "Ok" =>
            /\ out[i].val <= 1114111
            /\ ~IsSurrogateValue(out[i].val)
            /\ out[i].len = MinimalLength(out[i].val)

\* a four-byte sequence was accepted
C2_Witness ==
    \E i \in Calls : out[i].kind = "Ok" /\ out[i].len = 4 /\ out[i].val >= 65536

---------------------------------------------------------------------------
(* C3 *)

\* C3: a call that returns InvalidLead leaves the caller's source
\* unadvanced.
C3_InvalidLeadUnadvanced ==
    \A i \in Calls : out[i].kind = "InvalidLead" => out[i].to = out[i].from

---------------------------------------------------------------------------
(* C4 *)

---------------------------------------------------------------------------
(* C5 *)

\* C5 as stated: every fully decoded sequence whose value fits a shorter
\* encoding is rejected with OverlongSequence.
C5_OverlongRejected ==
    \A i \in Calls :
        (FullyDecoded(i) /\ MinimalLength(Assembled(i)) < LengthAt(i)) =>
            out[i].kind = "OverlongSequence"

\* C5 amended: every fully decoded sequence whose value fits a shorter
\* encoding is rejected, with OverlongSequence unless the value is a
\* surrogate, and then with InvalidCodePoint.
C5_OverlongRejectedAmended ==
    \A i \in Calls :
        (FullyDecoded(i) /\ MinimalLength(Assembled(i)) < LengthAt(i)) =>
            out[i].kind = (IF IsSurrogateValue(Assembled(i))
                           THEN "InvalidCodePoint" ELSE "OverlongSequence")

\* 0xC0 0x80 was rejected as overlong, not accepted as NUL
C5_Witness ==
    /\ src = <<192, 128>>
    /\ Len(out) >= 1
    /\ out[1].kind = "OverlongSequence"

---------------------------------------------------------------------------
(* C6 *)

\* C6: a three-byte sequence decoding to a surrogate and a four-byte
\* sequence decoding above 0x10FFFF are rejected with InvalidCodePoint.
C6_InvalidScalarRejected ==
    \A i \in Calls :
        FullyDecoded(i) =>
            /\ (LengthAt(i) = 3 /\ IsSurrogateValue(Assembled(i)))
                   => out[i].kind = "InvalidCodePoint"
            /\ (LengthAt(i) = 4 /\ Assembled(i) > 1114111)
                   => out[i].kind = "InvalidCodePoint"

\* 0xED 0xA0 0x80 (U+D800) was rejected
C6_Witness ==
    \E i \in Calls :
        /\ FullyDecoded(i) /\ LengthAt(i) = 3 /\ Assembled(i) = 55296
        /\ out[i].kind = "InvalidCodePoint"

---------------------------------------------------------------------------
(* C7 *)

\* C7: a sequence cut short by the end of the source gives NotEnoughRoom, a
\* byte that is no continuation byte at a continuation position gives
\* IncompleteSequence, and neither gives OverlongSequence or
\* InvalidCodePoint.
C7_TruncatedOrMalformed ==
    \A i \in Calls :
        /\ Truncated(i) => out[i].kind = "NotEnoughRoom"
        /\ (\E k \in 1 .. 3 : FirstMalformedAt(i, k))
               => out[i].kind = "IncompleteSequence"
        /\ (Truncated(i) \/ \E k \in 1 .. 3 : FirstMalformedAt(i, k))
               => out[i].kind \notin {"OverlongSequence", "InvalidCodePoint"}

\* one source gave both: a malformed third byte, then a lone lead at its end
C7_Witness ==
    \E i, j \in Calls :
        /\ FirstMalformedAt(i, 2) /\ out[i].kind = "IncompleteSequence"
        /\ Truncated(j) /\ out[j].kind = "NotEnoughRoom"

---------------------------------------------------------------------------
(* C8 *)

\* C8: the lead byte alone decides the classification: 0x00-0x7F length 1,
\* 0xC0-0xDF length 2, 0xE0-0xEF length 3, 0xF0-0xF7 length 4, and any other
\* first byte makes validate_next return InvalidLead.
C8_Classification ==
    \A i \in Calls :
        Present(i, 0) =>
            /\ ByteAt(i, 0) \in 0 .. 127 => out[i].len = 1
            /\ ByteAt(i, 0) \in 192 .. 223 => out[i].len = 2
            /\ ByteAt(i, 0) \in 224 .. 239 => out[i].len = 3
            /\ ByteAt(i, 0) \in 240 .. 247 => out[i].len = 4
            /\ ByteAt(i, 0) \in (128 .. 191) \cup (248 .. 255)
                   => out[i].kind = "InvalidLead"
            /\ out[i].kind = "InvalidLead" => out[i].len = 0

\* 0xF7, the last four-byte lead, was classified with two bytes after it
C8_Witness ==
    /\ Len(src) = 3 /\ src[1] = 247
    /\ Len(out) >= 1 /\ out[1].len = 4

---------------------------------------------------------------------------
(* C9 *)

\* C9: over the concatenated encodings of c1..cn the i-th call starts where
\* the i-th encoding starts, returns Ok(ci) and advances by its length.
C9_SequentialDecoding ==
    \A i \in Calls :
        i <= Len(cps) =>
            /\ out[i].from = StartOf(i)
            /\ out[i].kind = "Ok"
            /\ out[i].val = cps[i]
            /\ Consumed(i) = Len(Encode(cps[i]))
            /\ Consumed(i) = out[i].len

---------------------------------------------------------------------------
(* C10 *)

\* C10: a byte failing the continuation predicate at position k makes the
\* call return IncompleteSequence having consumed exactly k + 1 bytes, and
\* no call consumes more than 4 bytes.
C10_FailFast ==
    \A i \in Calls :
        /\ \A k \in 1 .. 3 :
               FirstMalformedAt(i, k) =>
                   (out[i].kind = "IncompleteSequence" /\ Consumed(i) = k + 1)
        /\ Consumed(i) <= 4

\* a four-byte sequence failed at its third byte with two bytes left unread
C10_Witness ==
    /\ Len(src) = 5 /\ Len(out) >= 1
    /\ LengthAt(1) = 4 /\ FirstMalformedAt(1, 2)
    /\ out[1].kind = "IncompleteSequence" /\ out[1].to = 3

===========================================================================
